---- MODULE Spec2Model ----
(***************************************************************************)
(* FindFiles (volcano_base/load/load_c2w_files.py): the query engine over  *)
(* the tuples a RegexLookup extracted from the archive's file names.       *)
(* A catalog view is one FindFiles object: _matched_files (absent or a     *)
(* list of tuples), _sort_order (absent or a tuple of group names) and     *)
(* _sort_reverse.  The views share the RegexLookup's _combined set, which  *)
(* RegexLookup.search fills from the files below DATA_PATH; a tuple is     *)
(* turned back into a path by RegexLookup.reverse_search.                  *)
(***************************************************************************)
EXTENDS Integers, Sequences, FiniteSets, TLC

VARIABLES
  combined,    \* RegexLookup._combined: the set of extracted tuples
  iter_order,  \* the order in which that Python set is iterated
  views,       \* the fields of each FindFiles object
  alive,       \* the objects that exist
  shared,      \* whether both objects' _matched_files are one list object
  ordering,    \* per object, the sort its caller last saw succeed (history)
  disk,        \* the files below volcano_base.config.DATA_PATH
  bad_files,   \* RegexLookup._bad_files: the scanned files that did not match
  groups,      \* list(RegexLookup.groups.values()): the group names in order
  group_sets,  \* RegexLookup._<name>, by group name: the values seen of a group
  root_exists, \* whether volcano_base.config.DATA_PATH exists
  last         \* the call that has just returned or raised, if any

vars == <<combined, iter_order, views, alive, shared, ordering, disk, bad_files,
          groups, group_sets, root_exists, last>>

---------------------------------------------------------------------------
(* Bounds of the model *)

\* longest _matched_files list the model follows (find and keep can repeat tuples)
MaxSel == 3
\* largest number of terms passed to one find/keep/remove call
MaxTerms == 2

---------------------------------------------------------------------------
(* Optional values: Python's None or a value *)

None == <<>>
Some(x) == <<x>>
IsNone(o) == o = <<>>
Get(o) == o[1]

---------------------------------------------------------------------------
(* The schema and the archive *)

\* list(self.regex.groups.values())
Groups == groups

\* the group names of a three-group RegexLookup whose last group is 'date'
three_groups == <<"sim", "attr", "date">>

\* the group names of default_regex()
default_regex_groups == <<"compset", "ensemble", "sim", "attr", "freq", "date">>

\* the group names of mcg24_archive_regex()
mcg24_archive_regex_groups ==
  <<"attr", "reff", "ensemble", "eruption", "time_period", "map">>

\* the tuples a scan can extract, tuple(search.groups()): "a" is a value of
\* two groups, and no file name holds both "x" and "b"
Universe == { <<"a", "x", "1">>, <<"a", "x", "2">>, <<"b", "a", "1">> }

\* Python's str ordering (code points) on the strings of the model; "z"
\* occurs in no file name
Rank(v) ==
  CASE v = "1" -> 1 [] v = "2" -> 2 [] v = "a" -> 3
    [] v = "b" -> 4 [] v = "x" -> 5 [] v = "z" -> 6

Range(s) == { s[i] : i \in DOMAIN s }

\* the orders in which a Python set with the elements S can be iterated
Enumerations(S) ==
  { s \in [1..Cardinality(S) -> S] : Range(s) = S }

---------------------------------------------------------------------------
(* The files and the shipped preset default_regex().  A path below          *)
(* DATA_PATH is held by its parts,                                          *)
(*   top/dir/lead-ensemble-sim/mid/attr-freq-date+suffix,                   *)
(* the parts the regular expression and the reverse search query tell       *)
(* apart.                                                                   *)

Path(top, dir, lead, ensemble, sim, mid, attr, freq, date, suffix) ==
  [top |-> top, dir |-> dir, lead |-> lead, ensemble |-> ensemble, sim |-> sim,
   mid |-> mid, attr |-> attr, freq |-> freq, date |-> date, suffix |-> suffix]

\* the files an archive of the model may hold: one laid out as the reverse
\* search query says, one whose third directory starts with another word than
\* the compset, one outside 'aggregate', one outside 'ensemble-simulations',
\* one of another file type, one of another attribute
PresetFiles ==
  { Path("ensemble-simulations", "c", "c", "e", "s", "aggregate", "T", "h0", "1", ".nc"),
    Path("ensemble-simulations", "c", "k", "e", "s", "aggregate", "T", "h0", "1", ".nc"),
    Path("ensemble-simulations", "c", "c", "e", "s", "raw", "T", "h0", "2", ".nc"),
    Path("other", "c", "c", "e", "s", "aggregate", "T", "h0", "1", ".nc"),
    Path("ensemble-simulations", "c", "c", "e", "s", "aggregate", "T", "h0", "2", ".npz"),
    Path("ensemble-simulations", "c", "c", "e", "s", "aggregate", "F", "h0", "1", ".nc") }

\* a tuple of the preset's groups that no file of the model yields
AbsentTuple == <<"c", "e", "s", "F", "h0", "2">>

\* self.root_path.rglob(f"**/*{self.ft}")
rglob(files, ft) == { f \in files : f.suffix = ft }

\* pattern.search(str(file)) with the pattern of default_regex() and ft '.nc':
\* '.*ensemble-simulations/(compset)/\w+-(ensemble)-(sim)/.*/(attr)-(freq)-(date).nc'
\* yields search.groups(), or nothing
pattern_search(file) ==
  IF file.top = "ensemble-simulations" /\ file.suffix = ".nc"
  THEN Some(<<file.dir, file.ensemble, file.sim, file.attr, file.freq, file.date>>)
  ELSE None

\* the values at the places of group g in the tuples tups: what
\* getattr(self, f"_{list(self.groups.values())[i]}").add(v) collects
values_of(g, tups) ==
  { t[i] : t \in tups, i \in { j \in DOMAIN Groups : Groups[j] = g } }

\* _initial_file_lookup stopping at the first file that does not match
initial_file_lookup_until_bad(files) ==
  LET matched == { Get(pattern_search(f)) : f \in { g \in files : ~IsNone(pattern_search(g)) } }
      bad == { f \in files : IsNone(pattern_search(f)) }
  IN IF bad = {}
     THEN [combined |-> matched, bad_files |-> {},
           sets |-> [g \in Range(Groups) |-> values_of(g, matched)]]
     ELSE [combined |-> {}, bad_files |-> bad, sets |-> [g \in Range(Groups) |-> {}]]

\* RegexLookup._initial_file_lookup(files, pattern): what one scan adds to
\* _combined, to _bad_files and to the sets of the groups
initial_file_lookup(files) ==
  LET matched == { Get(pattern_search(f)) : f \in { g \in files : ~IsNone(pattern_search(g)) } }
  IN [combined |-> matched,
      bad_files |-> { f \in files : IsNone(pattern_search(f)) },
      sets |-> [g \in Range(Groups) |-> values_of(g, matched)]]

\* RegexLookup.search() of default_regex()
search(files) == initial_file_lookup(rglob(files, ".nc"))

\* RegexLookup.reverse_search(file_tuple, ft) of default_regex():
\* 'ensemble-simulations/<compset>/<compset>-<ensemble>-<sim>/aggregate/<attr>-<freq>-<date><ft>'
reverse_search(file_tuple, ft) ==
  Path("ensemble-simulations", file_tuple[1], file_tuple[1], file_tuple[2], file_tuple[3],
       "aggregate", file_tuple[4], file_tuple[5], file_tuple[6], ft)

\* the loop of _re_create_file_paths leaving out the paths that do not exist
RECURSIVE re_create_skipping(_, _, _, _)
re_create_skipping(found_files, ft, check_existence, files) ==
  IF found_files = <<>> THEN [err |-> "none", ret |-> Some(<<>>)]
  ELSE LET done == re_create_skipping(SubSeq(found_files, 1, Len(found_files) - 1),
                                      ft, check_existence, files)
           path == reverse_search(found_files[Len(found_files)],
                                  IF IsNone(ft) THEN ".nc" ELSE Get(ft))
       IN IF path \notin files /\ check_existence THEN done
          ELSE [err |-> "none", ret |-> Some(Append(Get(done.ret), path))]

\* FindFiles._re_create_file_paths(*found_files, ft=..., check_existence=...);
\* the FileNotFoundError is the MissingFileError; ret is the list returned
RECURSIVE re_create_file_paths(_, _, _, _)
re_create_file_paths(found_files, ft, check_existence, files) ==
  IF found_files = <<>> THEN [err |-> "none", ret |-> Some(<<>>)]
  ELSE LET done == re_create_file_paths(SubSeq(found_files, 1, Len(found_files) - 1),
                                        ft, check_existence, files)
           path == reverse_search(found_files[Len(found_files)],
                                  IF IsNone(ft) THEN ".nc" ELSE Get(ft))
       IN IF done.err # "none" THEN done
          ELSE IF path \notin files /\ check_existence
               THEN [err |-> "MissingFileError", ret |-> None]
          ELSE [err |-> "none", ret |-> Some(Append(Get(done.ret), path))]

---------------------------------------------------------------------------
(* Helpers of the handlers *)

\* `elem in tup` on a tuple of strings
In(elem, tup) == \E i \in DOMAIN tup : tup[i] = elem

\* find/keep: a str argument is wrapped in a list, any other iterable is kept
Str(v) == [kind |-> "str", val |-> v]
Iter(s) == [kind |-> "iter", val |-> s]
Wrap(elem) == IF elem.kind = "str" THEN <<elem.val>> ELSE elem.val

RECURSIVE Flatten(_)
Flatten(ss) == IF ss = <<>> THEN <<>> ELSE Head(ss) \o Flatten(Tail(ss))

\* list(itertools.product(*combinations)): rightmost element advances first
RECURSIVE product(_)
product(combinations) ==
  IF combinations = <<>> THEN << <<>> >>
  ELSE LET rest == product(Tail(combinations))
           first == Head(combinations)
       IN Flatten([i \in DOMAIN first |->
                     [j \in DOMAIN rest |-> <<first[i]>> \o rest[j]]])

\* found_tups with any() in place of all()
found_tups_any(source, prod_tup) ==
  SelectSeq(source, LAMBDA tup : \E i \in DOMAIN prod_tup : In(prod_tup[i], tup))

\* found_tups collecting the product tuple in place of the matching tuple
found_tups_prod(source, prod_tup) ==
  LET hits == SelectSeq(source, LAMBDA tup : \A i \in DOMAIN prod_tup : In(prod_tup[i], tup))
  IN [k \in DOMAIN hits |-> prod_tup]

\* [tup for tup in source if all(elem in tup for elem in prod_tup)]
found_tups(source, prod_tup) ==
  SelectSeq(source, LAMBDA tup : \A i \in DOMAIN prod_tup : In(prod_tup[i], tup))

\* the loop `for prod_tup in prod: out.extend(found_tups)`
collect(source, prod) ==
  Flatten([k \in DOMAIN prod |-> found_tups(source, prod[k])])

\* sorter(x) of _sort_tup: tuple(x[lookup[attr]] for attr in attributes)
lookup(a) == CHOOSE i \in DOMAIN Groups : Groups[i] = a
sorter(x, attributes) == [k \in DOMAIN attributes |-> x[lookup(attributes[k])]]

\* Python's tuple comparison k1 < k2 on tuples of strings of equal length
RECURSIVE TupLess(_, _)
TupLess(k1, k2) ==
  IF k1 = <<>> THEN FALSE
  ELSE IF Head(k1) # Head(k2) THEN Rank(Head(k1)) < Rank(Head(k2))
  ELSE TupLess(Tail(k1), Tail(k2))

\* a comparison that does not look at reverse
BeforeAscending(x, y, attributes, reverse) ==
  TupLess(sorter(x, attributes), sorter(y, attributes))

\* whether x must come before y: list.sort(key, reverse)
Before(x, y, attributes, reverse) ==
  IF reverse THEN TupLess(sorter(y, attributes), sorter(x, attributes))
  ELSE TupLess(sorter(x, attributes), sorter(y, attributes))

\* an insertion that puts x in front of the elements with an equal key
RECURSIVE InsertBeforeEqual(_, _, _, _)
InsertBeforeEqual(x, s, attributes, reverse) ==
  IF s = <<>> THEN <<x>>
  ELSE IF ~Before(Head(s), x, attributes, reverse) THEN <<x>> \o s
  ELSE <<Head(s)>> \o InsertBeforeEqual(x, Tail(s), attributes, reverse)

\* insert x behind every element that does not have to come after it
RECURSIVE InsertStable(_, _, _, _)
InsertStable(x, s, attributes, reverse) ==
  IF s = <<>> THEN <<x>>
  ELSE IF Before(x, Head(s), attributes, reverse) THEN <<x>> \o s
  ELSE <<Head(s)>> \o InsertStable(x, Tail(s), attributes, reverse)

\* list.sort(key=sorter, reverse=...): stable in both directions
RECURSIVE ListSort(_, _, _)
ListSort(s, attributes, reverse) ==
  IF s = <<>> THEN <<>>
  ELSE InsertStable(s[Len(s)], ListSort(SubSeq(s, 1, Len(s) - 1), attributes, reverse),
                    attributes, reverse)

---------------------------------------------------------------------------
(* The handlers of FindFiles, as functions of the object's fields.  Each   *)
(* yields                                                                  *)
(*   self  the fields after the call,                                      *)
(*   err   the exception raised ("none" when the call returned); find's    *)
(*         AttributeError is the QueryError, _sort_tup's the SchemaError,  *)
(*   old   the contents, after the call, of the list object that           *)
(*         _matched_files referred to when the call began (copy() makes    *)
(*         two objects refer to one list),                                 *)
(*   same  whether _matched_files still refers to that list object.        *)

Outcome(self, err, old, same) == [self |-> self, err |-> err, old |-> old, same |-> same]

\* FindFiles.__init__: the fields of a newly constructed object
init_fields == [matched_files |-> None, sort_order |-> None, sort_reverse |-> FALSE]

\* _sort_tup sorting self._matched_files itself, without the list copy
sort_tup_in_place(self, attributes) ==
  IF IsNone(self.matched_files) THEN Outcome(self, "none", self.matched_files, TRUE)
  ELSE IF \E k \in DOMAIN attributes : attributes[k] \notin Range(Groups)
       THEN Outcome(self, "SchemaError", self.matched_files, TRUE)
  ELSE LET ac == ListSort(Get(self.matched_files), attributes, self.sort_reverse)
       IN Outcome([self EXCEPT !.matched_files = Some(ac)], "none", Some(ac), TRUE)

\* FindFiles._sort_tup(*attributes): sorts a copy of the list and rebinds
sort_tup(self, attributes) ==
  IF IsNone(self.matched_files) THEN Outcome(self, "none", self.matched_files, TRUE)
  ELSE IF \E k \in DOMAIN attributes : attributes[k] \notin Range(Groups)
       THEN Outcome(self, "SchemaError", self.matched_files, TRUE)
  ELSE LET ac == ListSort(Get(self.matched_files), attributes, self.sort_reverse)
       IN Outcome([self EXCEPT !.matched_files = Some(ac)], "none",
                  self.matched_files, FALSE)

\* FindFiles.sort(*attributes, reverse=...) on the object's own _matched_files
sort(self, attributes, reverse) ==
  LET s1 == [self EXCEPT !.sort_order = Some(attributes), !.sort_reverse = reverse]
  IN IF IsNone(s1.matched_files) THEN Outcome(s1, "none", s1.matched_files, TRUE)
     ELSE sort_tup(s1, attributes)

\* FindFiles._sort_xr(arrays, *attributes).  A loaded array carries the values
\* of the tuple it was loaded from as attributes named after the groups
\* (load, lines 659-661), so it is modelled by that tuple; ret is the list
\* returned
sort_xr(self, arrays, attributes) ==
  IF \E k \in DOMAIN attributes :
       \E i \in DOMAIN arrays : attributes[k] \notin Range(Groups)
  THEN [err |-> "SchemaError", ret |-> None]
  ELSE [err |-> "none", ret |-> Some(ListSort(arrays, attributes, self.sort_reverse))]

\* FindFiles.sort(*attributes, arrays=arrays, reverse=...): the external-list
\* form
sort_arrays(self, attributes, arrays, reverse) ==
  LET s1 == [self EXCEPT !.sort_order = Some(attributes), !.sort_reverse = reverse]
      r == sort_xr(s1, arrays, attributes)
  IN [self |-> s1, err |-> r.err, old |-> s1.matched_files, same |-> TRUE, ret |-> r.ret]

\* find binding _matched_files before it looks whether anything was found
find_assign_first(self, args, source) ==
  LET s1 == [self EXCEPT !.sort_order = None]
      prod == product([i \in DOMAIN args |-> Wrap(args[i])])
      out == collect(source, prod)
  IN Outcome([s1 EXCEPT !.matched_files = Some(out)],
             IF out # <<>> THEN "none" ELSE "QueryError", self.matched_files, FALSE)

\* find searching the matched files, as keep does, once there are any
find_in_selection(self, args, source) ==
  LET s1 == [self EXCEPT !.sort_order = None]
      prod == product([i \in DOMAIN args |-> Wrap(args[i])])
      out == collect(IF IsNone(self.matched_files) THEN source ELSE Get(self.matched_files),
                     prod)
  IN IF out # <<>>
     THEN Outcome([s1 EXCEPT !.matched_files = Some(out)], "none", self.matched_files, FALSE)
     ELSE Outcome(s1, "QueryError", self.matched_files, TRUE)

\* FindFiles.find(*args); source is the iteration order of regex._combined
find(self, args, source) ==
  LET s1 == [self EXCEPT !.sort_order = None]
      prod == product([i \in DOMAIN args |-> Wrap(args[i])])
      out == collect(source, prod)
  IN IF out # <<>>
     THEN Outcome([s1 EXCEPT !.matched_files = Some(out)], "none", self.matched_files, FALSE)
     ELSE Outcome(s1, "QueryError", self.matched_files, TRUE)

\* the tail of remove and keep, on the newly bound list: re-apply the
\* remembered sort order
resort(self, old) ==
  IF IsNone(self.sort_order) THEN Outcome(self, "none", old, FALSE)
  ELSE LET r == sort_tup(self, Get(self.sort_order))
       IN Outcome(r.self, r.err, old, FALSE)

\* remove with any() in place of all()
remove_any(self, args) ==
  IF IsNone(self.matched_files) THEN Outcome(self, "none", self.matched_files, TRUE)
  ELSE resort([self EXCEPT !.matched_files =
                 Some(SelectSeq(Get(self.matched_files),
                                LAMBDA tup : \E i \in DOMAIN args : ~In(args[i], tup)))],
              self.matched_files)

\* FindFiles.remove(*args)
remove(self, args) ==
  IF IsNone(self.matched_files) THEN Outcome(self, "none", self.matched_files, TRUE)
  ELSE resort([self EXCEPT !.matched_files =
                 Some(SelectSeq(Get(self.matched_files),
                                LAMBDA tup : \A i \in DOMAIN args : ~In(args[i], tup)))],
              self.matched_files)

\* keep searching regex._combined, as find does
keep_from_index(self, args) ==
  IF IsNone(self.matched_files) THEN Outcome(self, "none", self.matched_files, TRUE)
  ELSE LET prod == product([i \in DOMAIN args |-> Wrap(args[i])])
           out == collect(iter_order, prod)
       IN resort([self EXCEPT !.matched_files = Some(out)], self.matched_files)

\* keep binding `out or None`
keep_none_when_empty(self, args) ==
  IF IsNone(self.matched_files) THEN Outcome(self, "none", self.matched_files, TRUE)
  ELSE LET prod == product([i \in DOMAIN args |-> Wrap(args[i])])
           out == collect(Get(self.matched_files), prod)
       IN IF out = <<>>
          THEN Outcome([self EXCEPT !.matched_files = None], "none", self.matched_files, FALSE)
          ELSE resort([self EXCEPT !.matched_files = Some(out)], self.matched_files)

\* keep looking at the first product tuple only
keep_first_product(self, args) ==
  IF IsNone(self.matched_files) THEN Outcome(self, "none", self.matched_files, TRUE)
  ELSE LET prod == product([i \in DOMAIN args |-> Wrap(args[i])])
           out == collect(Get(self.matched_files), SubSeq(prod, 1, 1))
       IN resort([self EXCEPT !.matched_files = Some(out)], self.matched_files)

\* FindFiles.keep(*args)
keep(self, args) ==
  IF IsNone(self.matched_files) THEN Outcome(self, "none", self.matched_files, TRUE)
  ELSE LET prod == product([i \in DOMAIN args |-> Wrap(args[i])])
           out == collect(Get(self.matched_files), prod)
       IN resort([self EXCEPT !.matched_files = Some(out)], self.matched_files)

\* the sets raised by a find in the opposite order of the groups
find_error_args_reversed(regex_sets) ==
  [k \in DOMAIN Groups |-> regex_sets[Groups[Len(Groups) + 1 - k]]]

\* the sets a find without matches raises after its message:
\* [getattr(self.regex, f"_{name}") for name in self.regex.groups.values()]
find_error_args(regex_sets) == [k \in DOMAIN Groups |-> regex_sets[Groups[k]]]

\* the chain self.find(*args).keep(*more): keep is not reached when find raises
find_keep(self, args, more, source) ==
  LET r1 == find(self, args, source)
      r2 == keep(r1.self, more)
  IN IF r1.err # "none" THEN r1
     ELSE Outcome(r2.self, r2.err, r1.old, FALSE)

\* file[:-1]
Prefix(file) == SubSeq(file, 1, Len(file) - 1)

\* the loop comparing whole tuples in place of file[:-1]
RECURSIVE only_recent_whole_tuple(_)
only_recent_whole_tuple(files) ==
  IF files = <<>> THEN <<>>
  ELSE LET acc == only_recent_whole_tuple(SubSeq(files, 1, Len(files) - 1))
           file == files[Len(files)]
           tuple_exists == \E i \in DOMAIN acc : file = acc[i]
       IN IF ~tuple_exists \/ acc = <<>> THEN Append(acc, file) ELSE acc

\* the loop of keep_most_recent over the date-sorted list
RECURSIVE only_recent(_)
only_recent(files) ==
  IF files = <<>> THEN <<>>
  ELSE LET acc == only_recent(SubSeq(files, 1, Len(files) - 1))
           file == files[Len(files)]
           tuple_exists == \E i \in DOMAIN acc : Prefix(file) = Prefix(acc[i])
       IN IF ~tuple_exists \/ acc = <<>> THEN Append(acc, file) ELSE acc

\* keep_most_recent sorting by 'date' before it looks whether anything is
\* matched
keep_most_recent_sort_first(self) ==
  LET sorting == self.sort_order
      reverse == self.sort_reverse
      r1 == sort(self, <<"date">>, TRUE)
      s2 == [r1.self EXCEPT !.matched_files =
               Some(only_recent(Get(r1.self.matched_files)))]
      r3 == IF IsNone(sorting) THEN Outcome(s2, "none", r1.old, FALSE)
            ELSE sort(s2, Get(sorting), reverse)
  IN IF IsNone(r1.self.matched_files) \/ r1.err # "none" THEN r1
     ELSE Outcome(r3.self, r3.err, r1.old, FALSE)

\* FindFiles.keep_most_recent()
keep_most_recent(self) ==
  IF IsNone(self.matched_files) THEN Outcome(self, "none", self.matched_files, TRUE)
  ELSE LET sorting == self.sort_order
           reverse == self.sort_reverse
           r1 == sort(self, <<"date">>, TRUE)
           s2 == [r1.self EXCEPT !.matched_files =
                    Some(only_recent(Get(r1.self.matched_files)))]
           r3 == IF IsNone(sorting) THEN Outcome(s2, "none", r1.old, FALSE)
                 ELSE sort(s2, Get(sorting), reverse)
       IN IF r1.err # "none" THEN r1
          ELSE Outcome(r3.self, r3.err, r1.old, FALSE)

\* __len__ answering 0 when nothing has been matched yet
len_or_zero(self) ==
  IF IsNone(self.matched_files) THEN [err |-> "none", ret |-> Some(0)]
  ELSE [err |-> "none", ret |-> Some(Len(Get(self.matched_files)))]

\* FindFiles.__len__(): the ValueError is the StateError; ret is the number
\* returned
len(self) ==
  IF IsNone(self.matched_files) THEN [err |-> "StateError", ret |-> None]
  ELSE [err |-> "none", ret |-> Some(Len(Get(self.matched_files)))]

\* FindFiles.copy(): the new object's __dict__ holds the same values, so both
\* objects refer to the same list
copy(self) == self

---------------------------------------------------------------------------
(* The inputs the model gives the handlers *)

\* sequences over S of length 0..n
SeqsUpTo(S, n) == UNION { [1..k -> S] : k \in 0..n }

\* a term of find/keep: a str, or an iterable of str
Terms == { Str(v) : v \in {"a", "x", "b"} } \cup { Iter(<<"a", "x">>) }

\* *args of find and keep
QueryArgs == SeqsUpTo(Terms, MaxTerms)

\* *args of remove
RemoveArgs == SeqsUpTo({"2", "b", "z"}, MaxTerms)

\* *attributes of sort; "ens" is no group of the schema
SortArgs == { <<>>, <<"attr">>, <<"sim", "date">>, <<"ens">> }

\* the argument lists given to an object and its copy
CopyQueryArgs == { <<Str("a")>>, <<Str("b")>>, <<Iter(<<"a", "x">>), Str("1")>> }
CopyRemoveArgs == { <<"x">>, <<"2", "z">> }
CopySortArgs == { <<"attr">> }

\* the lists of loaded arrays given to sort(arrays=...), and its *attributes
ArrayLists == SeqsUpTo(Universe, 2)
ArraySortArgs == { <<"attr">>, <<"sim", "date">>, <<"ens">> }

\* the two objects the model follows: one constructed, one made by copy()
Views == {"ff", "cp"}

---------------------------------------------------------------------------
(* The state machine *)

\* no call is under inspection
NoCall ==
  [op |-> "none", v |-> "ff", args |-> <<>>, reverse |-> FALSE, err |-> "none",
   arrays |-> <<>>, ret |-> None, ft |-> None, check_existence |-> FALSE,
   pre |-> [w \in Views |-> init_fields]]

Idle == last.op = "none"

\* the record of the call that has just returned or raised: handler, object,
\* arguments, the exception raised, the arrays given and the list returned
\* (external-list sort only) and the objects' fields before the call
Call(op, v, args, reverse, err) ==
  [op |-> op, v |-> v, args |-> args, reverse |-> reverse, err |-> err,
   arrays |-> <<>>, ret |-> None, ft |-> None, check_existence |-> FALSE, pre |-> views]

\* the file 'arch/<sim>-<attr>-<date>.nc' a tuple of the three-group
\* RegexLookup was extracted from
ArchFile(r) == [top |-> "arch", sim |-> r[1], attr |-> r[2], date |-> r[3], suffix |-> ".nc"]

\* RegexLookup.search has filled _combined; ff = FindFiles(regex)
Init ==
  /\ groups = three_groups
  /\ root_exists = TRUE
  /\ combined \in SUBSET Universe
  /\ disk = { ArchFile(r) : r \in combined }
  /\ bad_files = {}
  /\ group_sets = [g \in Range(Groups) |-> values_of(g, combined)]
  /\ iter_order \in Enumerations(combined)
  /\ views = [v \in Views |-> init_fields]
  /\ alive = {"ff"}
  /\ shared = FALSE
  /\ ordering = [v \in Views |-> None]
  /\ last = NoCall

\* the lists the model follows are no longer than MaxSel
Fits(r) ==
  IF IsNone(r.self.matched_files) THEN TRUE ELSE Len(Get(r.self.matched_files)) <= MaxSel

\* what the caller of object v has seen: a sort that returned on a list of
\* matched files ordered that list by (attributes, reverse); a find that
\* returned replaced the list; a call that raised, or keep, remove and
\* keep_most_recent, are no new sort
Seen(op, v, args, reverse, r) ==
  IF op = "sort"
  THEN IF r.err = "none" /\ ~IsNone(views[v].matched_files)
       THEN Some([attributes |-> args, reverse |-> reverse])
       ELSE None
  ELSE IF op \in {"find", "find_keep"} /\ r.err = "none" THEN None
  ELSE ordering[v]

\* the call returns or raises: the object takes the handler's fields, and an
\* object whose _matched_files is the same list sees what was done to that list
Effect(op, v, args, reverse, r) ==
  /\ Fits(r)
  /\ ordering' = [ordering EXCEPT ![v] = Seen(op, v, args, reverse, r)]
  /\ views' = [w \in Views |->
                 IF w = v THEN r.self
                 ELSE IF shared THEN [views[w] EXCEPT !.matched_files = r.old]
                 ELSE views[w]]
  /\ shared' = (shared /\ r.same)
  /\ last' = [Call(op, v, args, reverse, r.err) EXCEPT
                !.ret = IF r.err = "QueryError" THEN Some(find_error_args(group_sets))
                        ELSE None]
  /\ UNCHANGED <<combined, iter_order, alive, disk, bad_files,
               groups, group_sets, root_exists>>

Find(v, args) ==
  /\ Idle /\ v \in alive
  /\ Effect("find", v, args, FALSE, find(views[v], args, iter_order))

Keep(v, args) ==
  /\ Idle /\ v \in alive
  /\ Effect("keep", v, args, FALSE, keep(views[v], args))

Remove(v, args) ==
  /\ Idle /\ v \in alive
  /\ Effect("remove", v, args, FALSE, remove(views[v], args))

Sort(v, attributes, reverse) ==
  /\ Idle /\ v \in alive
  /\ Effect("sort", v, attributes, reverse, sort(views[v], attributes, reverse))

KeepMostRecent(v) ==
  /\ Idle /\ v \in alive
  /\ Effect("keep_most_recent", v, <<>>, FALSE, keep_most_recent(views[v]))

\* sorted = v.sort(*attributes, arrays=arrays, reverse=reverse)
SortArrays(v, attributes, arrays, reverse) ==
  /\ Idle /\ v \in alive
  /\ LET r == sort_arrays(views[v], attributes, arrays, reverse)
     IN /\ views' = [views EXCEPT ![v] = r.self]
        /\ last' = [Call("sort_arrays", v, attributes, reverse, r.err)
                      EXCEPT !.arrays = arrays, !.ret = r.ret]
  /\ UNCHANGED <<combined, iter_order, alive, shared, ordering, disk, bad_files,
               groups, group_sets, root_exists>>

\* v.find(*args).keep(*more); the call record holds <<args, more>>
FindKeep(v, args, more) ==
  /\ Idle /\ v \in alive
  /\ Effect("find_keep", v, <<args, more>>, FALSE,
            find_keep(views[v], args, more, iter_order))

\* n = len(v)
Length(v) ==
  /\ Idle /\ v \in alive
  /\ LET r == len(views[v])
     IN last' = [Call("len", v, <<>>, FALSE, r.err) EXCEPT !.ret = r.ret]
  /\ UNCHANGED <<combined, iter_order, views, alive, shared, ordering, disk, bad_files,
               groups, group_sets, root_exists>>

\* paths = v._re_create_file_paths(*found_files, ft=ft, check_existence=...)
ReCreateFilePaths(v, found_files, ft, check_existence) ==
  /\ Idle /\ v \in alive
  /\ LET r == re_create_file_paths(found_files, ft, check_existence, disk)
     IN last' = [Call("re_create_file_paths", v, found_files, FALSE, r.err)
                   EXCEPT !.ret = r.ret, !.ft = ft, !.check_existence = check_existence]
  /\ UNCHANGED <<combined, iter_order, views, alive, shared, ordering, disk, bad_files,
               groups, group_sets, root_exists>>

\* cp = ff.copy()
Copy ==
  /\ Idle
  /\ "ff" \in alive
  /\ "cp" \notin alive
  /\ alive' = alive \cup {"cp"}
  /\ views' = [views EXCEPT !["cp"] = copy(views["ff"])]
  /\ shared' = TRUE
  /\ ordering' = [ordering EXCEPT !["cp"] = ordering["ff"]]
  /\ last' = Call("copy", "ff", <<>>, FALSE, "none")
  /\ UNCHANGED <<combined, iter_order, disk, bad_files,
               groups, group_sets, root_exists>>

\* the caller goes on to its next call
Forget ==
  /\ ~Idle
  /\ last' = NoCall
  /\ UNCHANGED <<combined, iter_order, views, alive, shared, ordering, disk, bad_files,
               groups, group_sets, root_exists>>

\* one object, every argument list of the model
Next ==
  \/ \E args \in QueryArgs : Find("ff", args)
  \/ \E args \in QueryArgs : Keep("ff", args)
  \/ \E args \in RemoveArgs : Remove("ff", args)
  \/ \E attributes \in SortArgs, reverse \in BOOLEAN : Sort("ff", attributes, reverse)
  \/ KeepMostRecent("ff")
  \/ Forget

Spec == Init /\ [][Next]_vars

\* an object and its copy, fewer argument lists
NextCopy ==
  \/ \E v \in Views, args \in CopyQueryArgs : Find(v, args)
  \/ \E v \in Views, args \in CopyQueryArgs : Keep(v, args)
  \/ \E v \in Views, args \in CopyRemoveArgs : Remove(v, args)
  \/ \E v \in Views, attributes \in CopySortArgs, reverse \in BOOLEAN :
        Sort(v, attributes, reverse)
  \/ \E v \in Views : KeepMostRecent(v)
  \/ Copy
  \/ Forget

\* the archive holds every file name of the model
InitCopy == Init /\ combined = Universe

SpecCopy == InitCopy /\ [][NextCopy]_vars

\* one object that also sorts lists of loaded arrays and is asked for its
\* length, fewer argument lists
NextArrays ==
  \/ \E args \in CopyQueryArgs : Find("ff", args)
  \/ \E args \in CopyQueryArgs : Keep("ff", args)
  \/ \E args \in CopyRemoveArgs \cup {<<"b">>} : Remove("ff", args)
  \/ \E attributes \in CopySortArgs, reverse \in BOOLEAN : Sort("ff", attributes, reverse)
  \/ \E attributes \in ArraySortArgs, arrays \in ArrayLists, reverse \in BOOLEAN :
        SortArrays("ff", attributes, arrays, reverse)
  \/ KeepMostRecent("ff")
  \/ Length("ff")
  \/ Forget

SpecArrays == InitCopy /\ [][NextArrays]_vars

\* ff = FindFiles(): search() of default_regex() has scanned the archive
InitPaths ==
  /\ groups = default_regex_groups
  /\ root_exists = TRUE
  /\ disk \in SUBSET PresetFiles
  /\ combined = search(disk).combined
  /\ bad_files = search(disk).bad_files
  /\ group_sets = search(disk).sets
  /\ iter_order \in Enumerations(combined)
  /\ views = [v \in Views |-> init_fields]
  /\ alive = {"ff"}
  /\ shared = FALSE
  /\ ordering = [v \in Views |-> None]
  /\ last = NoCall

\* the tuples handed to _re_create_file_paths: tuples of the scan, and one
\* that no file yields
FoundFiles == SeqsUpTo(combined \cup {AbsentTuple}, MaxTerms)

\* the paths of tuples are re-created, with and without ft and the check
NextPaths ==
  \/ \E found_files \in FoundFiles, ft \in {None, Some(".npz")}, check_existence \in BOOLEAN :
        ReCreateFilePaths("ff", found_files, ft, check_existence)
  \/ Forget

SpecPaths == InitPaths /\ [][NextPaths]_vars

\* ff = FindFiles(regex) on the RegexLookup of default_regex(), for the first
\* time or again: search() raises CESM2FileNotFound, the MissingArchiveError,
\* when DATA_PATH does not exist and no object is bound; else the scan adds
\* to the sets the RegexLookup holds and ff is a new object.  ret tells
\* whether an object was made.
Construct ==
  /\ Idle
  /\ IF ~root_exists
     THEN /\ last' = Call("FindFiles", "ff", <<>>, FALSE, "MissingArchiveError")
          /\ UNCHANGED <<combined, iter_order, views, alive, shared, ordering,
                         bad_files, group_sets>>
     ELSE LET r == search(disk)
          IN /\ combined' = combined \cup r.combined
             /\ bad_files' = bad_files \cup r.bad_files
             /\ group_sets' = [g \in Range(Groups) |-> group_sets[g] \cup r.sets[g]]
             /\ IF combined' = combined THEN iter_order' = iter_order
                ELSE iter_order' \in Enumerations(combined')
             /\ views' = [views EXCEPT !["ff"] = init_fields]
             /\ alive' = alive \cup {"ff"}
             /\ shared' = FALSE
             /\ ordering' = [ordering EXCEPT !["ff"] = None]
             /\ last' = [Call("FindFiles", "ff", <<>>, FALSE, "none")
                           EXCEPT !.ret = Some("ff")]
  /\ UNCHANGED <<disk, groups, root_exists>>

\* a file appears below DATA_PATH
AddFile(f) ==
  /\ Idle /\ root_exists /\ f \notin disk
  /\ disk' = disk \cup {f}
  /\ UNCHANGED <<combined, iter_order, views, alive, shared, ordering, bad_files,
                 groups, group_sets, root_exists, last>>

\* a file below DATA_PATH is deleted
DeleteFile(f) ==
  /\ Idle /\ f \in disk
  /\ disk' = disk \ {f}
  /\ UNCHANGED <<combined, iter_order, views, alive, shared, ordering, bad_files,
                 groups, group_sets, root_exists, last>>

\* DATA_PATH is created
Mount ==
  /\ Idle /\ ~root_exists
  /\ root_exists' = TRUE
  /\ UNCHANGED <<combined, iter_order, views, alive, shared, ordering, disk,
                 bad_files, groups, group_sets, last>>

\* regex = default_regex(): nothing is scanned and no FindFiles exists; the
\* archive may be missing
InitScan ==
  /\ groups = default_regex_groups
  /\ root_exists \in BOOLEAN
  /\ disk \in IF root_exists THEN SUBSET PresetFiles ELSE {{}}
  /\ combined = {}
  /\ bad_files = {}
  /\ group_sets = [g \in Range(Groups) |-> {}]
  /\ iter_order = <<>>
  /\ views = [v \in Views |-> init_fields]
  /\ alive = {}
  /\ shared = FALSE
  /\ ordering = [v \in Views |-> None]
  /\ last = NoCall

\* *args of find on the archive of the preset; no file holds "z", none holds
\* both "F" and "2"
ScanQueryArgs ==
  { <<>>, <<Str("T")>>, <<Str("F")>>, <<Str("2")>>, <<Str("F"), Str("2")>>, <<Str("z")>> }

\* objects are made from one RegexLookup, copied and queried while the
\* archive changes
NextScan ==
  \/ Construct
  \/ Copy
  \/ \E args \in ScanQueryArgs : Find("ff", args)
  \/ \E f \in PresetFiles : AddFile(f)
  \/ \E f \in PresetFiles : DeleteFile(f)
  \/ Mount
  \/ Forget

SpecScan == InitScan /\ [][NextScan]_vars

\* a reverse search query is held as the sequence of its parts, a part being
\* a placeholder '<name>' or other text
Placeholder(name) == [kind |-> "placeholder", val |-> name]
Text(t) == [kind |-> "text", val |-> t]

\* `f"<{name}>" in str(reverse_search_query.resolve())`
HasPlaceholder(reverse_search_query, name) ==
  \E i \in DOMAIN reverse_search_query : reverse_search_query[i] = Placeholder(name)

\* self.ft = ft if ft.startswith(".") else f".{ft}", on the ft of the model
dotted(ft) == IF ft = "nc" THEN ".nc" ELSE ft

\* RegexLookup.__init__(ft, group_names, reverse_search_query, regex): the
\* ValueError is the ConfigurationError; self holds the new object's fields
RegexLookup(ft, group_names, reverse_search_query) ==
  IF \E k \in DOMAIN group_names : ~HasPlaceholder(reverse_search_query, group_names[k])
  THEN [err |-> "ConfigurationError", self |-> None]
  ELSE [err |-> "none",
        self |-> Some([ft |-> dotted(ft), groups |-> group_names,
                       sets |-> [g \in Range(group_names) |-> {}],
                       combined |-> {}, bad_files |-> {}])]

\* 'arch/<sim>-<attr>-<date><ft>' with only the placeholders in keep
Template(kept) ==
  SelectSeq(<<Text("arch/"), Placeholder("sim"), Text("-"), Placeholder("attr"),
              Text("-"), Placeholder("date"), Placeholder("ft")>>,
            LAMBDA part : part.kind = "text" \/ part.val \in kept)

\* the reverse search queries, group names and file types of the model
Templates == { Template(kept) : kept \in SUBSET {"sim", "attr", "date", "ft"} }
GroupNames == { <<>>, <<"sim">>, <<"sim", "attr">>, three_groups }
FileTypes == { ".nc", "nc", ".npz" }

\* regex = RegexLookup(ft, group_names, reverse_search_query, ...); the call
\* record holds <<group_names, reverse_search_query>> and ft
NewRegexLookup(ft, group_names, reverse_search_query) ==
  /\ Idle
  /\ LET r == RegexLookup(ft, group_names, reverse_search_query)
     IN /\ last' = [Call("RegexLookup", "ff", <<group_names, reverse_search_query>>,
                          FALSE, r.err) EXCEPT !.ft = Some(ft)]
        /\ IF r.err # "none"
           THEN UNCHANGED <<combined, iter_order, bad_files, groups, group_sets>>
           ELSE /\ groups' = Get(r.self).groups
                /\ group_sets' = Get(r.self).sets
                /\ combined' = Get(r.self).combined
                /\ bad_files' = Get(r.self).bad_files
                /\ iter_order' = <<>>
  /\ UNCHANGED <<views, alive, shared, ordering, disk, root_exists>>

\* no RegexLookup and no FindFiles exists yet
InitRegex ==
  /\ groups = <<>>
  /\ root_exists = TRUE
  /\ disk = {}
  /\ combined = {}
  /\ bad_files = {}
  /\ group_sets = <<>>
  /\ iter_order = <<>>
  /\ views = [v \in Views |-> init_fields]
  /\ alive = {}
  /\ shared = FALSE
  /\ ordering = [v \in Views |-> None]
  /\ last = NoCall

\* RegexLookup objects are constructed, one after the other
NextRegex ==
  \/ \E ft \in FileTypes, group_names \in GroupNames, reverse_search_query \in Templates :
        NewRegexLookup(ft, group_names, reverse_search_query)
  \/ Forget

SpecRegex == InitRegex /\ [][NextRegex]_vars

\* the tuples a scan with mcg24_archive_regex() can extract in the model
\* (attr, reff, ensemble, eruption, time_period, map): two differ in the
\* last group only
Mcg24Universe ==
  { <<"a", "1", "x", "1", "2", "1">>,
    <<"a", "1", "x", "1", "2", "2">>,
    <<"b", "2", "a", "1", "1", "1">> }

\* the file 'mcg2024/fig3a_ModelE2.2_Toba_ensemble_Tsurf_maps/<attr>_..._<map>.nc'
\* a tuple of mcg24_archive_regex() was extracted from
Mcg24File(r) == [top |-> "mcg2024", name |-> r, suffix |-> ".nc"]

\* ff = find_mcg24_files(): FindFiles(mcg24_archive_regex()) has scanned
InitMcg24 ==
  /\ groups = mcg24_archive_regex_groups
  /\ root_exists = TRUE
  /\ combined \in SUBSET Mcg24Universe
  /\ disk = { Mcg24File(r) : r \in combined }
  /\ bad_files = {}
  /\ group_sets = [g \in Range(Groups) |-> values_of(g, combined)]
  /\ iter_order \in Enumerations(combined)
  /\ views = [v \in Views |-> init_fields]
  /\ alive = {"ff"}
  /\ shared = FALSE
  /\ ordering = [v \in Views |-> None]
  /\ last = NoCall

\* the object of find_mcg24_files(), every argument list of the model
SpecMcg24 == InitMcg24 /\ [][Next]_vars

\* *args of the keep of a chain: none, one term (among them alternatives
\* that match different files), two terms, a value of no file
ChainArgs ==
  SeqsUpTo(Terms \cup { Iter(<<"x", "b">>) }, 1)
    \cup { <<Str("x"), Str("2")>>, <<Str("z")>> }

\* one object queried by chains of find and keep only
NextChain ==
  \/ \E args \in QueryArgs, more \in ChainArgs : FindKeep("ff", args, more)
  \/ Forget

SpecChain == Init /\ [][NextChain]_vars

---------------------------------------------------------------------------
(* What the claims speak of *)

\* Queried: a Selection is present
Queried(f) == ~IsNone(f.matched_files)
\* the Selection of a Queried object
Sel(f) == Get(f.matched_files)
\* the fields of the called object before and after the call under inspection
Pre == last.pre[last.v]
Post == views[last.v]

\* a Record satisfies a term: a literal is one of its values, an OR-term has
\* a member that is
SatisfiesTerm(r, t) ==
  IF t.kind = "str" THEN t.val \in Range(r) ELSE Range(t.val) \cap Range(r) # {}
SatisfiesAll(r, args) == \A i \in DOMAIN args : SatisfiesTerm(r, args[i])

Count(s, r) == Cardinality({ i \in DOMAIN s : s[i] = r })
NoDuplicates(s) == \A i, j \in DOMAIN s : i # j => s[i] # s[j]

\* s can be obtained from t by deleting entries
RECURSIVE IsSubseq(_, _)
IsSubseq(s, t) ==
  IF s = <<>> THEN TRUE
  ELSE IF t = <<>> THEN FALSE
  ELSE IF Head(s) = Head(t) THEN IsSubseq(Tail(s), Tail(t))
  ELSE IsSubseq(s, Tail(t))

FailedFind == last.op = "find" /\ last.err = "QueryError"

\* the identity prefix of a Record (all fields but the last) and its recency
\* key (the last field, 'date')
IdentityPrefix(r) == [i \in 1..(Len(r) - 1) |-> r[i]]
RecencyKey(r) == r[Len(r)]
\* the Records of s that no Record of s with the same identity prefix exceeds
\* in the recency key
MostRecent(s) ==
  { r \in Range(s) :
      \A q \in Range(s) :
        IdentityPrefix(q) = IdentityPrefix(r) => Rank(RecencyKey(q)) <= Rank(RecencyKey(r)) }

\* every name is a group of the schema
Known(gs) == \A k \in DOMAIN gs : \E i \in DOMAIN Groups : Groups[i] = gs[k]
\* the value a Record holds in group g
GroupValue(r, g) == r[CHOOSE i \in DOMAIN Groups : Groups[i] = g]
\* two Records agree in all the groups gs
KeysEqual(x, y, gs) == \A k \in DOMAIN gs : GroupValue(x, gs[k]) = GroupValue(y, gs[k])
\* x is lexicographically below y in the groups gs, the first most significant
KeyLess(x, y, gs) ==
  \E k \in DOMAIN gs :
    /\ \A j \in 1..(k - 1) : GroupValue(x, gs[j]) = GroupValue(y, gs[j])
    /\ Rank(GroupValue(x, gs[k])) < Rank(GroupValue(y, gs[k]))
\* s is in non-decreasing order of the groups gs, non-increasing when reversed
OrderedBy(s, gs, reverse) ==
  \A i, j \in DOMAIN s :
    i < j => IF reverse THEN ~KeyLess(s[i], s[j], gs) ELSE ~KeyLess(s[j], s[i], gs)
\* s and t hold the same Records the same number of times
Permutation(s, t) ==
  /\ Len(s) = Len(t)
  /\ \A r \in Range(s) \cup Range(t) : Count(s, r) = Count(t, r)
\* s read from its end to its start
Reversed(s) == [i \in DOMAIN s |-> s[Len(s) + 1 - i]]
\* distinct Records of s never agree in all the groups gs
NoTies(s, gs) == \A i, j \in DOMAIN s : KeysEqual(s[i], s[j], gs) => s[i] = s[j]
\* the Records with equal keys stand in s in the relative order they have in t
KeepsTies(s, t, gs) ==
  \A r \in Range(t) :
    SelectSeq(s, LAMBDA x : KeysEqual(x, r, gs)) = SelectSeq(t, LAMBDA x : KeysEqual(x, r, gs))

---------------------------------------------------------------------------
(* The claims *)

\* C1: a find that fails with QueryError on a Queried catalog leaves Selection
\* and SortState (remembered group names and reverse flag) as they were.
C1_FailedFindKeepsSelectionAndSortState ==
  (FailedFind /\ Queried(Pre)) => Post = Pre

\* C2: a failing find never changes Selection: a Queried catalog keeps the
\* same Records in the same order, an Unqueried catalog stays Unqueried.
C2_FailedFindKeepsSelection ==
  FailedFind => Post.matched_files = Pre.matched_files

C2_Witness ==
  FailedFind /\ Queried(Pre) /\ Len(Sel(Pre)) >= 2

\* C3: find matches position-agnostically: it fails with QueryError exactly
\* when no Record of the Index satisfies every term, and on success the set of
\* Records in Selection is the set of the Records that satisfy every term.
C3_FindMatchesInAnyPosition ==
  last.op = "find" =>
    LET M == { r \in combined : SatisfiesAll(r, last.args) }
    IN /\ last.err = "QueryError" <=> M = {}
       /\ last.err = "none" <=> M # {}
       /\ last.err = "none" => Queried(Post) /\ Range(Sel(Post)) = M

\* a successful find of an OR-term and a literal that leaves some Record out
\* and selects a Record holding "a" outside its first position
C3_Witness ==
  /\ last.op = "find" /\ last.err = "none"
  /\ Len(last.args) = 2
  /\ \E i \in DOMAIN last.args : last.args[i].kind = "iter"
  /\ Range(Sel(Post)) # combined
  /\ \E r \in Range(Sel(Post)) : r[2] = "a"

\* C4: a successful find lists every matching Record exactly once.
C4_FindDeduplicates ==
  (last.op = "find" /\ last.err = "none") => NoDuplicates(Sel(Post))

\* C5: a constructed catalog starts Unqueried with no SortState; only a
\* successful find makes it Queried; once Queried it stays Queried.
C5_CatalogStateMachine ==
  /\ views["ff"] = init_fields
  /\ [][ /\ Queried(views["ff"]) => Queried(views'["ff"])
         /\ (~Queried(views["ff"]) /\ Queried(views'["ff"]))
              => (last'.op = "find" /\ last'.v = "ff" /\ last'.err = "none")
       ]_vars

\* keep has emptied the Selection of a Queried catalog
C5_Witness ==
  /\ last.op = "keep" /\ Queried(Pre) /\ Sel(Pre) # <<>>
  /\ Queried(Post) /\ Sel(Post) = <<>>

\* C6: every Record in the Selection of every view, copies included, is a
\* member of the Index's combined set.
C6_SelectionWithinIndex ==
  \A v \in alive : Queried(views[v]) => Range(Sel(views[v])) \subseteq combined

\* the copy has narrowed its own Selection
C6_Witness ==
  /\ "cp" \in alive /\ last.op = "keep" /\ last.v = "cp"
  /\ Queried(Post) /\ Sel(Post) # <<>> /\ Sel(Post) # Sel(Pre)

\* C7: the copy starts with the original's Selection and SortState, and a call
\* on one of the two views leaves the other view's fields unchanged.
C7_CopyIndependence ==
  /\ last.op = "copy" =>
       views["cp"] = last.pre["ff"] /\ views["ff"] = last.pre["ff"]
  /\ (last.op \notin {"none", "copy"} /\ alive = Views) =>
       \A w \in Views \ {last.v} : views[w] = last.pre[w]

\* a sort of one view reordered its list while the other view held the same
\* Selection
C7_Witness ==
  /\ alive = Views /\ last.op = "sort" /\ last.err = "none"
  /\ Queried(Pre) /\ last.pre["ff"].matched_files = last.pre["cp"].matched_files
  /\ Post.matched_files # Pre.matched_files

\* C8: keep on a Queried catalog leaves exactly the Records of the prior
\* Selection that satisfy every term.
C8_KeepFiltersSelection ==
  (last.op = "keep" /\ Queried(Pre)) =>
    /\ Queried(Post)
    /\ Range(Sel(Post)) = { r \in Range(Sel(Pre)) : SatisfiesAll(r, last.args) }

\* a keep with an OR-term that dropped some Records and kept others
C8_Witness ==
  /\ last.op = "keep" /\ Queried(Pre)
  /\ \E i \in DOMAIN last.args : last.args[i].kind = "iter"
  /\ Sel(Post) # <<>>
  /\ Range(Sel(Post)) # Range(Sel(Pre))

\* C9: remove on a Queried catalog drops exactly the Records holding one of
\* the literals; the others survive, in their prior relative order when no
\* SortState is remembered.
C9_RemoveDropsExactly ==
  (last.op = "remove" /\ Queried(Pre)) =>
    /\ Queried(Post)
    /\ \A r \in Universe :
         Count(Sel(Post), r) =
           IF Range(last.args) \cap Range(r) # {} THEN 0 ELSE Count(Sel(Pre), r)
    /\ IsNone(Pre.sort_order) => IsSubseq(Sel(Post), Sel(Pre))

\* a remove without SortState that dropped a Record and left two or more
C9_Witness ==
  /\ last.op = "remove" /\ Queried(Pre) /\ IsNone(Pre.sort_order)
  /\ Len(Sel(Post)) >= 2
  /\ Len(Sel(Post)) < Len(Sel(Pre))

\* C10: on a Queried catalog keep and remove complete without error, and a
\* remove of literals that occur in no Record of Selection changes nothing.
C10_NarrowingNeverFails ==
  (last.op \in {"keep", "remove"} /\ Queried(Pre)) =>
    /\ last.err = "none"
    /\ Queried(Post)
    /\ (last.op = "remove"
        /\ \A r \in Range(Sel(Pre)) : Range(last.args) \cap Range(r) = {})
         => Sel(Post) = Sel(Pre)

\* C11: on an Unqueried catalog keep, remove and keep_most_recent return
\* without error and leave the catalog Unqueried with its SortState unchanged.
C11_NarrowingUnqueriedIsNoOp ==
  (last.op \in {"keep", "remove", "keep_most_recent"} /\ ~Queried(Pre)) =>
    /\ last.err = "none"
    /\ ~Queried(Post)
    /\ Post.sort_order = Pre.sort_order
    /\ Post.sort_reverse = Pre.sort_reverse

\* keep_most_recent on an Unqueried catalog that remembers a sort order
C11_Witness ==
  /\ last.op = "keep_most_recent" /\ ~Queried(Pre)
  /\ Pre.sort_order = Some(<<"attr">>) /\ ~Pre.sort_reverse

\* C13: sort(g1..gn) on a Queried catalog makes Selection a permutation of
\* itself, ordered lexicographically by the named groups (g1 most significant,
\* non-decreasing, non-increasing with reverse), keeps Records with equal keys
\* in their prior relative order, remembers (g1..gn, reverse) as SortState, and
\* the same sort once more leaves Selection unchanged.
C13_SortOrdersStably ==
  (last.op = "sort" /\ Queried(Pre) /\ Known(last.args)) =>
    /\ last.err = "none"
    /\ Queried(Post)
    /\ Permutation(Sel(Post), Sel(Pre))
    /\ OrderedBy(Sel(Post), last.args, last.reverse)
    /\ KeepsTies(Sel(Post), Sel(Pre), last.args)
    /\ Post.sort_order = Some(last.args)
    /\ Post.sort_reverse = last.reverse
    /\ sort(Post, last.args, last.reverse).self = Post

\* a sort that moved Records while two distinct Records shared the key
C13_Witness ==
  /\ last.op = "sort" /\ Queried(Pre) /\ last.args = <<"attr">>
  /\ \E i, j \in DOMAIN Sel(Pre) :
       /\ i < j /\ Sel(Pre)[i] # Sel(Pre)[j]
       /\ KeysEqual(Sel(Pre)[i], Sel(Pre)[j], last.args)
  /\ Sel(Post) # Sel(Pre)

\* C14: for the same Selection and keys, sort(keys, reverse=True) yields
\* exactly the reverse sequence of sort(keys, reverse=False), also when
\* distinct Records share the same values in the key groups.
C14_ReverseSortIsExactReverse ==
  (last.op = "sort" /\ Queried(Pre) /\ Known(last.args)) =>
    Sel(Post) = Reversed(Sel(sort(Pre, last.args, ~last.reverse).self))

\* C14 as amended: the two sorts yield exactly reverse sequences whenever no
\* two distinct Records of Selection share the same values in the key groups;
\* in every case the two results are permutations of each other whose
\* sequences of key values are reverse to each other.
C14_ReverseSortReversesKeys ==
  (last.op = "sort" /\ Queried(Pre) /\ Known(last.args)) =>
    LET other == Reversed(Sel(sort(Pre, last.args, ~last.reverse).self))
    IN /\ NoTies(Sel(Pre), last.args) => Sel(Post) = other
       /\ Permutation(Sel(Post), other)
       /\ \A i \in DOMAIN other : KeysEqual(Sel(Post)[i], other[i], last.args)

\* a sort by two groups of three distinct Records with distinct keys that
\* were not in order
C14_Witness ==
  /\ last.op = "sort" /\ Queried(Pre) /\ last.args = <<"sim", "date">>
  /\ Len(Sel(Pre)) = 3 /\ NoDuplicates(Sel(Pre))
  /\ Sel(Post) # Sel(Pre) /\ Sel(Post) # Reversed(Sel(Pre))

\* C16: sort on the catalog's own Selection fails with SchemaError whenever a
\* named group is not a group of the schema, in every catalog state:
\* Unqueried, Queried with Records, Queried with an empty Selection.
C16_SortUnknownGroupFails ==
  (last.op = "sort" /\ ~Known(last.args)) => last.err = "SchemaError"

\* C17: keep_most_recent on a Queried catalog (schema ending in 'date')
\* leaves exactly one Record for each identity prefix of the prior Selection,
\* the one with the greatest 'date' of that prefix; every other Record, exact
\* duplicates included, is dropped.
C17_KeepMostRecentPerPrefix ==
  (last.op = "keep_most_recent" /\ Queried(Pre)) =>
    /\ Queried(Post)
    /\ NoDuplicates(Sel(Post))
    /\ Range(Sel(Post)) = MostRecent(Sel(Pre))
    /\ \A r \in Range(Sel(Pre)) :
         Cardinality({ i \in DOMAIN Sel(Post) :
                        IdentityPrefix(Sel(Post)[i]) = IdentityPrefix(r) }) = 1

\* keep_most_recent on a Selection of three Records that lists the older
\* Record of a prefix before the newer one
C17_Witness ==
  /\ last.op = "keep_most_recent" /\ Queried(Pre)
  /\ Len(Sel(Pre)) = 3
  /\ \E i, j \in DOMAIN Sel(Pre) :
       /\ i < j /\ IdentityPrefix(Sel(Pre)[i]) = IdentityPrefix(Sel(Pre)[j])
       /\ Rank(RecencyKey(Sel(Pre)[i])) < Rank(RecencyKey(Sel(Pre)[j]))
  /\ Len(Sel(Post)) = 2

\* C18: keep_most_recent preserves SortState: when group names and a reverse
\* flag were remembered before the call, the same are remembered after it and
\* the deduplicated Selection is ordered by them; when none was remembered,
\* the deduplicated Selection is left in descending 'date' order.
C18_KeepMostRecentKeepsSortState ==
  (last.op = "keep_most_recent" /\ Queried(Pre)) =>
    /\ Queried(Post)
    /\ IF IsNone(Pre.sort_order)
       THEN OrderedBy(Sel(Post), <<"date">>, TRUE)
       ELSE /\ Post.sort_order = Pre.sort_order
            /\ Post.sort_reverse = Pre.sort_reverse
            /\ Known(Get(Pre.sort_order))
            /\ OrderedBy(Sel(Post), Get(Pre.sort_order), Pre.sort_reverse)

\* C12: after sort(g1..gn, reverse) has succeeded on a Queried catalog,
\* Selection is ordered by (g1..gn) in direction reverse after every later
\* keep, remove or keep_most_recent, until the next successful find or the
\* next sort of the catalog's own Selection.
C12_NarrowingKeepsOrdering ==
  (/\ last.op \in {"keep", "remove", "keep_most_recent"}
   /\ Queried(Pre)
   /\ ~IsNone(ordering[last.v])) =>
    /\ Queried(Post)
    /\ OrderedBy(Sel(Post), Get(ordering[last.v]).attributes, Get(ordering[last.v]).reverse)

\* C15: sort with an explicit list of loaded objects returns a sorted copy of
\* that list and leaves the catalog's Selection and SortState (remembered
\* group names and reverse flag) untouched.
C15_ExternalSortLeavesCatalog ==
  last.op = "sort_arrays" =>
    /\ Post = Pre
    /\ (last.err = "none" /\ Known(last.args)) =>
         /\ Permutation(Get(last.ret), last.arrays)
         /\ OrderedBy(Get(last.ret), last.args, last.reverse)

\* C19: round trip: for every Record r that the scan put into the Index,
\* resolve([r]) yields a path that exists on disk, that is the path of every
\* file r was extracted from, and from which r is extracted again, for every
\* file layout the matcher accepts.
C19_RoundTrip ==
  (/\ last.op = "re_create_file_paths"
   /\ Len(last.args) = 1 /\ last.args[1] \in combined
   /\ IsNone(last.ft)) =>
    /\ last.err = "none"
    /\ Len(Get(last.ret)) = 1
    /\ Get(last.ret)[1] \in disk
    /\ \A f \in rglob(disk, ".nc") :
         pattern_search(f) = Some(last.args[1]) => f = Get(last.ret)[1]
    /\ pattern_search(Get(last.ret)[1]) = Some(last.args[1])

\* C20: resolve returns one rendered path per input Record, in input order;
\* with checkExistence it fails with MissingFileError exactly when a rendered
\* path is absent from disk, and returns no list then; without it, it never
\* fails over a missing file.
C20_ResolveOnePathPerRecord ==
  last.op = "re_create_file_paths" =>
    LET ft == IF IsNone(last.ft) THEN ".nc" ELSE Get(last.ft)
        rendered == [i \in DOMAIN last.args |-> reverse_search(last.args[i], ft)]
        missing == \E i \in DOMAIN rendered : rendered[i] \notin disk
    IN /\ last.err \in {"none", "MissingFileError"}
       /\ last.err = "none" => last.ret = Some(rendered)
       /\ last.err # "none" => IsNone(last.ret)
       /\ last.check_existence => (last.err = "MissingFileError" <=> missing)
       /\ ~last.check_existence => last.err = "none"

\* a checked call that failed on its second Record after the path of its
\* first was found on disk
C20_Witness ==
  /\ last.op = "re_create_file_paths" /\ last.check_existence
  /\ Len(last.args) = 2
  /\ reverse_search(last.args[1], ".nc") \in disk
  /\ IsNone(last.ft)
  /\ last.err = "MissingFileError"

\* C27: a sort of the catalog's own Selection that fails with SchemaError
\* leaves Selection and SortState unchanged.
C27_FailedSortChangesNothing ==
  (last.op = "sort" /\ last.err = "SchemaError") => Post = Pre

\* C28: keep, remove and keep_most_recent only narrow: Selection has at most
\* as many entries after the call as before, for every argument combination.
C28_NarrowingOnlyNarrows ==
  (last.op \in {"keep", "remove", "keep_most_recent"} /\ Queried(Pre)) =>
    /\ Queried(Post)
    /\ Len(Sel(Post)) <= Len(Sel(Pre))

\* C25: a successful find is a full new search: the Selection it leaves is the
\* one a newly constructed catalog would get from the same Index and terms,
\* whatever was selected before, and no SortState is remembered, so that keep
\* and remove calls after it re-apply no sort remembered before that find.
C25_FindIsNewSearch ==
  (last.op = "find" /\ last.err = "none") =>
    LET fresh == find(init_fields, last.args, iter_order).self
    IN /\ Queried(Post)
       /\ Sel(Post) = Sel(fresh)
       /\ IsNone(Post.sort_order)
       /\ \A args \in CopyQueryArgs :
            keep(Post, args).self.matched_files = keep(fresh, args).self.matched_files
       /\ \A args \in CopyRemoveArgs :
            remove(Post, args).self.matched_files = remove(fresh, args).self.matched_files

\* a successful find on a catalog that had narrowed its Selection and
\* remembered a descending sort
C25_Witness ==
  /\ last.op = "find" /\ last.err = "none" /\ Queried(Pre)
  /\ Pre.sort_order = Some(<<"attr">>) /\ Pre.sort_reverse
  /\ Len(Sel(Post)) > Len(Sel(Pre))
  /\ ~OrderedBy(Sel(Post), Get(Pre.sort_order), TRUE)

\* C23: length() fails with StateError exactly when the catalog is Unqueried;
\* on a Queried catalog it returns the number of Records in Selection (0 for
\* an empty Selection); it changes nothing.
C23_LengthNeedsQuery ==
  last.op = "len" =>
    /\ last.err = "StateError" <=> ~Queried(Pre)
    /\ last.err = "none" <=> Queried(Pre)
    /\ Queried(Pre) => last.ret = Some(Cardinality(DOMAIN Sel(Pre)))
    /\ views = last.pre

\* the length of an empty Selection was asked for
C23_Witness ==
  last.op = "len" /\ Queried(Pre) /\ Sel(Pre) = <<>> /\ last.ret = Some(0)

\* C29: whenever find(a..., b...) succeeds, the chain find(a...).keep(b...)
\* leaves the same set of Records in Selection; when no Record satisfies
\* both, find(a..., b...) raises QueryError while the chain ends Queried with
\* an empty Selection.
C29_ChainEqualsConjunction ==
  last.op = "find_keep" =>
    LET direct == find(init_fields, last.args[1] \o last.args[2], iter_order)
    IN /\ direct.err = "none" =>
            /\ last.err = "none" /\ Queried(Post)
            /\ Range(Sel(Post)) = Range(Sel(direct.self))
       /\ direct.err # "none" =>
            /\ direct.err = "QueryError"
            /\ last.err = "none" /\ Queried(Post) /\ Sel(Post) = <<>>

\* C29 as amended: the same, but when no Record satisfies both, the chain
\* ends Queried with an empty Selection only if some Record satisfies
\* a...; if none does, the chain raises the QueryError of find(a...) and
\* leaves Selection as it was.
C29_ChainEqualsConjunctionIfFound ==
  last.op = "find_keep" =>
    LET direct == find(init_fields, last.args[1] \o last.args[2], iter_order)
        some == \E r \in combined : SatisfiesAll(r, last.args[1])
    IN /\ direct.err = "none" =>
            /\ last.err = "none" /\ Queried(Post)
            /\ Range(Sel(Post)) = Range(Sel(direct.self))
       /\ (direct.err # "none" /\ some) =>
            /\ direct.err = "QueryError"
            /\ last.err = "none" /\ Queried(Post) /\ Sel(Post) = <<>>
       /\ ~some =>
            /\ direct.err = "QueryError" /\ last.err = "QueryError"
            /\ Post.matched_files = Pre.matched_files

\* a chain whose find selected two Records or more on an already Queried
\* catalog and whose keep left none of them
C29_Witness ==
  /\ last.op = "find_keep" /\ last.err = "none" /\ Queried(Pre)
  /\ last.args[1] # <<>>
  /\ Len(Sel(find(init_fields, last.args[1], iter_order).self)) > 1
  /\ Sel(Post) = <<>>

\* C21: a scan whose root directory is missing fails with
\* MissingArchiveError and produces no Catalog view; otherwise every
\* candidate file ends up either in combined (its values in the per-group
\* sets) or in unmatched, never both and never dropped, and a file that does
\* not match never aborts the scan.
C21_ScanPartitionsCandidates ==
  last.op = "FindFiles" =>
    /\ last.err = "MissingArchiveError" <=> ~root_exists
    /\ ~root_exists => (IsNone(last.ret) /\ alive = {} /\ views = last.pre)
    /\ root_exists =>
         /\ last.err = "none" /\ last.ret = Some("ff") /\ "ff" \in alive
         /\ \A f \in { g \in disk : g.suffix = ".nc" } :
              LET t == pattern_search(f)
              IN IF IsNone(t) THEN f \in bad_files
                 ELSE /\ Get(t) \in combined
                      /\ \A i \in DOMAIN Groups : Get(t)[i] \in group_sets[Groups[i]]
                      /\ f \notin bad_files

\* a scan of an archive holding a file that matches, a candidate that does
\* not, and a file of another type
C21_Witness ==
  /\ last.op = "FindFiles" /\ last.err = "none"
  /\ \E f \in disk : f.suffix = ".nc" /\ ~IsNone(pattern_search(f))
  /\ \E f \in disk : f.suffix = ".nc" /\ IsNone(pattern_search(f))
  /\ \E f \in disk : f.suffix # ".nc"

\* C22: once a view is constructed, the Index (combined, perGroupValues,
\* unmatched) never changes: not through find, copy or the other calls, and
\* not through the construction of further views, also from the same
\* PatternSpec object after the archive directory has changed.
C22_IndexNeverChanges ==
  [][alive # {} => UNCHANGED <<combined, group_sets, bad_files>>]_vars

\* C26: the QueryError of a failed find carries, for every group of the
\* schema in schema order, the complete set of the distinct values observed
\* for that group in the Index, whatever the Selection is.
C26_ErrorCarriesGroupValues ==
  FailedFind =>
    /\ ~IsNone(last.ret)
    /\ DOMAIN Get(last.ret) = DOMAIN Groups
    /\ \A k \in DOMAIN Groups : Get(last.ret)[k] = { r[k] : r \in combined }

\* a failed find on a catalog whose Selection holds fewer values of some
\* group than the Index
C26_Witness ==
  /\ FailedFind /\ Queried(Pre) /\ Sel(Pre) # <<>>
  /\ \E k \in DOMAIN Groups :
        /\ Cardinality(Get(last.ret)[k]) > 1
        /\ { Sel(Pre)[i][k] : i \in DOMAIN Sel(Pre) } # Get(last.ret)[k]
  /\ \E k, j \in DOMAIN Groups : Get(last.ret)[k] # Get(last.ret)[j]

\* C30: keep_most_recent on a Queried catalog whose schema has no 'date'
\* group (the mcg24 preset, whose last group is 'map') fails with
\* SchemaError and leaves Selection and SortState unchanged, so that later
\* keep and remove calls still succeed.
C30_NoDateLeavesCatalog ==
  (last.op = "keep_most_recent" /\ Queried(Pre) /\ ~Known(<<"date">>)) =>
    /\ last.err = "SchemaError"
    /\ Post = Pre
    /\ \A args \in CopyQueryArgs : keep(Post, args).err = "none"
    /\ \A args \in CopyRemoveArgs : remove(Post, args).err = "none"

\* C24: constructing a PatternSpec fails with ConfigurationError whenever
\* the template lacks the placeholder of a group or the placeholder of the
\* extension.
C24_TemplateNeedsAllPlaceholders ==
  last.op = "RegexLookup" =>
    LET group_names == last.args[1]
        reverse_search_query == last.args[2]
    IN ( \/ \E k \in DOMAIN group_names :
               Placeholder(group_names[k]) \notin Range(reverse_search_query)
         \/ Placeholder("ft") \notin Range(reverse_search_query) )
       => last.err = "ConfigurationError"

====
